---------------------------- MODULE Spec2Model ----------------------------
(***************************************************************************)
(* Cross-lingual idiom similarity: the scoring and ranking engine of       *)
(* analyze_improved_similarity.py, analyze_finnish_japanese_similarity.py  *)
(* and analyze_cross_lingual_similarity.py.                                *)
(*                                                                         *)
(* Numbers.  Python floats are modelled as exact rationals [n, d] in       *)
(* lowest terms with d > 0, so equal values are equal records and the      *)
(* comparisons are the exact ones.  Sequences are 1-based: Python index k  *)
(* is index k+1 here, and Python's index -1 is the sentinel MinusOne.      *)
(***************************************************************************)
EXTENDS Integers, Sequences, FiniteSets, TLC

VARIABLES
    script,      \* which program runs: "improved", "finnish_japanese", "cross_lingual"
    config,      \* min_threshold, idiom_weight, context_weight of the run
    en_data,     \* the English pickle: idioms and embedding rows
    todo,        \* the language pairs main() has still to analyse, in order
    target,      \* the language pair being analysed: code and pickle data
    pc,          \* position in main() / analyze_language_pair()
    sims,        \* the similarity matrices of the current analysis
    all_matches_sorted,           \* Mode A list of the current analysis
    target_best_matches_sorted,   \* Mode B list of the current analysis
    stats,       \* the statistics printed by the current analysis
    files,       \* the result files written so far: name -> content
    results,     \* main()'s results, one entry per analysed pair
    error,       \* the exception that left the analysis: its type and the step that raised it
    call,        \* arguments of a direct call of one function
    ret,         \* its return value
    top_k_matches  \* the matches collected so far by a top-k matcher

vars == <<script, config, en_data, todo, target, pc, sims, all_matches_sorted,
          target_best_matches_sorted, stats, files, results, error, call, ret,
          top_k_matches>>

-----------------------------------------------------------------------------
(* Bounds of the model *)

\* Longest idiom collection of one language.
MaxIdioms == 2

\* Number of target idioms of the large run, whose match list is longer
\* than the export limit.
LargeIdioms == 76

-----------------------------------------------------------------------------
(* Exact rational arithmetic *)

Abs(x) == IF x < 0 THEN -x ELSE x

RECURSIVE GCD(_, _)
GCD(a, b) == IF b = 0 THEN a ELSE GCD(b, a % b)

\* The rational n/d (d # 0) in lowest terms with a positive denominator.
Rat(n, d) ==
    LET g == GCD(Abs(n), Abs(d))
        s == IF d < 0 THEN -1 ELSE 1
    IN  [n |-> (s * n) \div g, d |-> (s * d) \div g]

RAdd(x, y) == Rat(x.n * y.d + y.n * x.d, x.d * y.d)
RSub(x, y) == Rat(x.n * y.d - y.n * x.d, x.d * y.d)
RMul(x, y) == Rat(x.n * y.n, x.d * y.d)
RDiv(x, y) == Rat(x.n * y.d, x.d * y.n)
RLt(x, y)  == x.n * y.d < y.n * x.d
RLe(x, y)  == x.n * y.d <= y.n * x.d
RGt(x, y)  == RLt(y, x)
RGe(x, y)  == RLe(y, x)

Zero == Rat(0, 1)
One  == Rat(1, 1)

-----------------------------------------------------------------------------
(* Texts: sequences of one-character strings *)

LowerCase == [c \in {"A", "B", "C", "D"} |->
                 CASE c = "A" -> "a" [] c = "B" -> "b" [] c = "C" -> "c" [] c = "D" -> "d"]

\* str.lower() of one character.
Lower(c) == IF c \in DOMAIN LowerCase THEN LowerCase[c] ELSE c

\* The characters regex \w matches, among those the model writes texts with.
WordChars == {"a", "b", "c", "d", "e", "f", "g", "h", "i", "j",
              "A", "B", "C", "D", "0", "1", "_"}

\* re.findall(r'\b\w+\b', text): the maximal runs of word characters. The
\* caller keeps only the set of them, so the matches are given as a set.
FindAll(text) ==
    LET IsWord(i) == text[i] \in WordChars
        Starts    == {i \in 1..Len(text) : IsWord(i) /\ (i = 1 \/ ~IsWord(i - 1))}
        End(i)    == CHOOSE j \in i..Len(text) :
                         /\ \A k \in i..j : IsWord(k)
                         /\ (j = Len(text) \/ ~IsWord(j + 1))
    IN  {SubSeq(text, i, End(i)) : i \in Starts}

\* Mutant of get_tokens: the text is not lowercased.
get_tokens_CaseSensitive(text) == FindAll(text)

\* get_tokens: the set of lowercased word tokens.
get_tokens(text) ==
    LET lowered == [i \in 1..Len(text) |-> Lower(text[i])]
    IN  FindAll(lowered)

\* Mutant of calculate_lexical_overlap: shared tokens over the tokens counted
\* per text.
calculate_lexical_overlap_OverSum(idiom1, idiom2) ==
    LET tokens1 == get_tokens(idiom1)
        tokens2 == get_tokens(idiom2)
    IN  IF tokens1 = {} \/ tokens2 = {}
        THEN Zero
        ELSE Rat(Cardinality(tokens1 \cap tokens2),
                 Cardinality(tokens1) + Cardinality(tokens2))

\* Mutant of calculate_lexical_overlap: shared tokens over the first text's.
calculate_lexical_overlap_OverFirst(idiom1, idiom2) ==
    LET tokens1 == get_tokens(idiom1)
        tokens2 == get_tokens(idiom2)
    IN  IF tokens1 = {} \/ tokens2 = {}
        THEN Zero
        ELSE Rat(Cardinality(tokens1 \cap tokens2), Cardinality(tokens1))

\* Mutant of calculate_lexical_overlap: all tokens over the shared ones.
calculate_lexical_overlap_Inverted(idiom1, idiom2) ==
    LET tokens1 == get_tokens(idiom1)
        tokens2 == get_tokens(idiom2)
    IN  IF tokens1 \cap tokens2 = {}
        THEN Zero
        ELSE Rat(Cardinality(tokens1 \cup tokens2), Cardinality(tokens1 \cap tokens2))

\* calculate_lexical_overlap: shared tokens over all unique tokens.
calculate_lexical_overlap(idiom1, idiom2) ==
    LET tokens1 == get_tokens(idiom1)
        tokens2 == get_tokens(idiom2)
        shared  == tokens1 \cap tokens2
        total   == tokens1 \cup tokens2
    IN  IF tokens1 = {} \/ tokens2 = {}
        THEN Zero
        ELSE Rat(Cardinality(shared), Cardinality(total))

-----------------------------------------------------------------------------
(* The weighted scorer *)

\* Mutant of PenaltyApplies: the score bound made inclusive.
PenaltyApplies_Inclusive(overlap, weighted_score) ==
    RGt(overlap, Rat(3, 10)) /\ RGe(weighted_score, Rat(6, 10))

\* Mutant of PenaltyApplies: the overlap bound made inclusive.
PenaltyApplies_OverlapInclusive(overlap, weighted_score) ==
    RGe(overlap, Rat(3, 10)) /\ RGt(weighted_score, Rat(6, 10))

\* The guard of the lexical penalty ("overlap > 0.3 and weighted_score > 0.6").
PenaltyApplies(overlap, weighted_score) ==
    RGt(overlap, Rat(3, 10)) /\ RGt(weighted_score, Rat(6, 10))

\* Mutant of penalty_factor: no reduction.
penalty_factor_None(overlap) == One

\* penalty_factor = 1 - (overlap * 0.5)
penalty_factor(overlap) == RSub(One, RMul(overlap, Rat(1, 2)))

\* Mutant of BaseScore: the two weights exchanged.
BaseScore_SwappedWeights(idiom_only_sim, context_sim, idiom_weight, context_weight) ==
    RAdd(RMul(context_weight, idiom_only_sim), RMul(idiom_weight, context_sim))

\* Mutant of BaseScore: the idiom term subtracted.
BaseScore_IdiomSubtracted(idiom_only_sim, context_sim, idiom_weight, context_weight) ==
    RSub(RMul(context_weight, context_sim), RMul(idiom_weight, idiom_only_sim))

\* The base weighted score of compute_weighted_similarity.
BaseScore(idiom_only_sim, context_sim, idiom_weight, context_weight) ==
    RAdd(RMul(idiom_weight, idiom_only_sim), RMul(context_weight, context_sim))

compute_weighted_similarity(idiom_only_sim, context_sim, idiom1, idiom2, idiom_weight, context_weight, lexical_penalty) ==
    LET weighted_score == BaseScore(idiom_only_sim, context_sim,
                                    idiom_weight, context_weight)
        overlap == calculate_lexical_overlap(idiom1, idiom2)
    IN  IF lexical_penalty /\ PenaltyApplies(overlap, weighted_score)
        THEN RMul(weighted_score, penalty_factor(overlap))
        ELSE weighted_score

-----------------------------------------------------------------------------
(* Embeddings and the pairwise similarity matrix *)

Dot(u, v) == u[1] * v[1] + u[2] * v[2]

\* The Euclidean norm; the model's vectors all have an integer norm.
Norm(v) == CHOOSE r \in 0..(Abs(v[1]) + Abs(v[2])) : r * r = Dot(v, v)

\* One entry of sklearn's cosine_similarity: the rows are L2-normalised, a
\* zero row staying zero, and multiplied.
Cosine(u, v) ==
    IF Norm(u) = 0 \/ Norm(v) = 0 THEN Zero ELSE Rat(Dot(u, v), Norm(u) * Norm(v))

\* cosine_similarity(X, Y): sklearn's input check raises ValueError for an
\* array with no row; otherwise the Len(X) x Len(Y) matrix.
cosine_similarity(X, Y) ==
    IF Len(X) = 0 \/ Len(Y) = 0
    THEN [raised |-> "ValueError", value |-> <<>>]
    ELSE [raised |-> "none",
          value  |-> [i \in 1..Len(X) |-> [j \in 1..Len(Y) |-> Cosine(X[i], Y[j])]]]

\* Rows and columns of a matrix built by cosine_similarity.
Rows(m) == Len(m)
Cols(m) == IF Len(m) = 0 THEN 0 ELSE Len(m[1])

-----------------------------------------------------------------------------
(* The inputs: pickled idiom collections with their embeddings *)

Txt_a_b  == <<"a", " ", "b">>
Txt_c    == <<"c">>
Txt_A_d  == <<"A", " ", "d", "!">>
Txt_a_c  == <<"a", " ", "c">>
Txt_e    == <<"e">>
Txt_f_g  == <<"f", ",", "g">>
Txt_bang == <<"!">>
Txt_A_b_bang == <<"A", " ", "b", "!">>
Txt_a_a_b == <<"a", " ", "a", " ", "b">>

\* Texts of many distinct two-letter words, for overlaps such as 3/10 and
\* 31/100: Words(n) is the first n of them, separated by blanks.
Letters == <<"a", "b", "c", "d", "e", "f", "g", "h", "i", "j">>

Word(k) == <<Letters[(k \div 10) + 1], Letters[(k % 10) + 1]>>

Words(n) ==
    [p \in 1..(3 * n - 1) |->
        IF p % 3 = 0 THEN " " ELSE Word((p - 1) \div 3)[((p - 1) % 3) + 1]]

\* An entry is one idiom record with its two embedding rows.
Entry(text, ctxs, trans, io, ic) ==
    [idiom |-> [idiom |-> text, contexts |-> ctxs, english_translations |-> trans],
     idiom_only |-> io, idiom_context |-> ic]

English_a_b == Entry(Txt_a_b, <<"en1", "en2">>, <<>>, <<1, 0>>, <<1, 0>>)
English_c   == Entry(Txt_c,   <<>>,             <<>>, <<3, 4>>, <<4, 3>>)
English_A_d == Entry(Txt_A_d, <<"en3">>,        <<>>, <<1, 0>>, <<1, 0>>)

Target_a_c == Entry(Txt_a_c, <<"tg1", "tg2">>, <<"tr1", "tr2">>, <<1, 0>>,  <<1, 0>>)
Target_e   == Entry(Txt_e,   <<>>,             <<>>,             <<4, 3>>,  <<3, 4>>)
Target_f_g == Entry(Txt_f_g, <<"tg3">>,        <<"tr3">>,        <<-1, 0>>, <<-1, 0>>)

\* An idiom whose record holds the 'idiom' key only.
BareEntry(text, io, ic) ==
    [idiom |-> [idiom |-> text], idiom_only |-> io, idiom_context |-> ic]

\* A target idiom with the surface form and the embeddings of English_a_b.
Target_a_b == Entry(Txt_a_b, <<"tg4">>, <<"tr4">>, <<1, 0>>, <<1, 0>>)

English_bare == BareEntry(Txt_c, <<3, 4>>, <<4, 3>>)
Target_bare  == BareEntry(Txt_e, <<-1, 0>>, <<-1, 0>>)

EnglishPool == {English_a_b, English_c, English_A_d}

TargetPool == {Target_a_c, Target_e, Target_f_g}

SeqsUpTo(S, n) == UNION {[1..k -> S] : k \in 0..n}

DropLast(s) == SubSeq(s, 1, Len(s) - 1)

\* The pickle of a collection, holding as many embedding rows as idioms.
Pickle(c) ==
    [idioms                   |-> [i \in 1..Len(c) |-> c[i].idiom],
     idiom_only_embeddings    |-> [i \in 1..Len(c) |-> c[i].idiom_only],
     idiom_context_embeddings |-> [i \in 1..Len(c) |-> c[i].idiom_context]]

\* The pickles a run may load: aligned ones over the pool, and misaligned
\* ones, of every length, with one idiom or one embedding row missing; the
\* misaligned ones repeat the entry `one`, their content being immaterial.
Pickles(pool, one) ==
    LET cs == SeqsUpTo({one}, MaxIdioms) \ {<<>>}
    IN  {Pickle(c) : c \in SeqsUpTo(pool, MaxIdioms)}
        \cup {[Pickle(c) EXCEPT !.idioms = DropLast(@)] : c \in cs}
        \cup {[Pickle(c) EXCEPT !.idiom_only_embeddings = DropLast(@),
                                !.idiom_context_embeddings = DropLast(@)] : c \in cs}

Aligned(data) == Len(data.idioms) = Len(data.idiom_only_embeddings)

\* The embedding array the basic scripts read under the key 'embeddings'.
Embeddings(data) == data.idiom_context_embeddings

DefaultThreshold == Rat(65, 100)
DefaultIdiomWeight == Rat(6, 10)
DefaultContextWeight == Rat(4, 10)

\* The scoring configurations of a run of the improved analysis.
\* export_limit holds the export limit a caller passes, if it passes one:
\* analyze_language_pair has no parameter for it.
Configs ==
    {[min_threshold |-> t, idiom_weight |-> DefaultIdiomWeight,
      context_weight |-> DefaultContextWeight, export_limit |-> <<>>] :
         t \in {DefaultThreshold, Rat(72, 100)}}

DefaultConfig ==
    [min_threshold |-> DefaultThreshold, idiom_weight |-> DefaultIdiomWeight,
     context_weight |-> DefaultContextWeight, export_limit |-> <<>>]

\* A caller that asks for the single top match to be exported.
LimitConfig == [DefaultConfig EXCEPT !.export_limit = <<1>>]

Scripts == {"improved", "finnish_japanese", "cross_lingual"}

\* json.dump / csv rows keep the first 100 records.
ExportLimit == 100

\* Python's index -1.
MinusOne == 0

-----------------------------------------------------------------------------
(* Helpers of the analysis *)

\* "x[0] if x else ''": the representative context or translation.
Representative(list) == IF list # <<>> THEN list[1] ELSE ""

\* list[i] in Python for i = -1 or a valid position.
PyIndex(list, i) == IF i = MinusOne THEN list[Len(list)] ELSE list[i]

\* The keys a match record subscripts in a source and in a target idiom.
EnglishKeys == {"contexts"}
TargetKeys  == {"contexts", "english_translations"}

\* data[key] succeeds for every key of keys; a dict raises KeyError otherwise.
HasKeys(data, keys) == keys \subseteq DOMAIN data

\* What a loop raises: the exception of its first failing iteration.
FirstRaised(outcomes) ==
    IF \A k \in 1..Len(outcomes) : outcomes[k] = "none"
    THEN "none"
    ELSE outcomes[CHOOSE k \in 1..Len(outcomes) :
                      /\ outcomes[k] # "none"
                      /\ \A l \in 1..(k - 1) : outcomes[l] = "none"]

\* Mutant of ComesBefore: of two elements with equal keys the later one
\* goes first (what reversing an ascending sort does).
ComesBefore_TiesReversed(ka, a, kb, b) == RGt(ka, kb) \/ (ka = kb /\ a > b)

\* The order sorted(..., reverse=True) puts two elements in, given their keys
\* ka, kb and their positions a, b in the input: the larger key first, and
\* equal keys in input order (the sort is stable).
ComesBefore(ka, a, kb, b) == RGt(ka, kb) \/ (ka = kb /\ a < b)

\* sorted(list, key=lambda x: x[key], reverse=True): each element at the
\* rank the order gives it.
sorted_reverse(list, key) ==
    LET n    == Len(list)
        rank == [i \in 1..n |->
                    1 + Cardinality({j \in 1..n :
                            ComesBefore(list[j][key], j, list[i][key], i)})]
    IN  [p \in 1..n |-> list[CHOOSE i \in 1..n : rank[i] = p]]

\* The loop indices a match record was built at. They are no keys of the
\* Python dict and are not exported; the model keeps them to tell records
\* of equal content apart.
Bookkeeping == {"en_idx", "tgt_idx"}

\* The dict a match record is, as json.dump and csv write it.
Exported(m) == [f \in (DOMAIN m) \ Bookkeeping |-> m[f]]

\* list[:n]
Take(list, n) == SubSeq(list, 1, IF Len(list) < n THEN Len(list) ELSE n)

\* An index pair outside the matrix makes numpy raise IndexError.
InMatrix(m, i, j) == i <= Rows(m) /\ j <= Cols(m)

-----------------------------------------------------------------------------
(* Mode A: all pairs *)

\* Mutant of AboveThreshold: the boundary made exclusive.
AboveThreshold_Strict(weighted_sim, min_threshold) == RGt(weighted_sim, min_threshold)

\* "if weighted_sim >= min_threshold"
AboveThreshold(weighted_sim, min_threshold) == RGe(weighted_sim, min_threshold)

\* Mutant of ImprovedMatch: the translation is read from the first target
\* idiom.
ImprovedMatch_FirstTranslation(en_idioms, target_idioms, s, cfg, i, j) ==
    LET en_idiom    == en_idioms[i].idiom
        tgt_idiom   == target_idioms[j].idiom
        idiom_sim   == s.idiom_only_sims[i][j]
        context_sim == s.context_sims[i][j]
    IN  [english_idiom         |-> en_idiom,
         english_context       |-> Representative(en_idioms[i].contexts),
         tgt_idiom             |-> tgt_idiom,
         tgt_context           |-> Representative(target_idioms[j].contexts),
         english_translation   |-> Representative(target_idioms[1].english_translations),
         weighted_similarity   |-> compute_weighted_similarity(idiom_sim, context_sim, en_idiom, tgt_idiom, cfg.idiom_weight, cfg.context_weight, TRUE),
         idiom_only_similarity |-> idiom_sim,
         context_similarity    |-> context_sim,
         lexical_overlap       |-> calculate_lexical_overlap(en_idiom, tgt_idiom),
         en_idx                |-> i,
         tgt_idx               |-> j]

\* The record the improved analysis builds for the pair (i, j).
ImprovedMatch(en_idioms, target_idioms, s, cfg, i, j) ==
    LET en_idiom    == en_idioms[i].idiom
        tgt_idiom   == target_idioms[j].idiom
        idiom_sim   == s.idiom_only_sims[i][j]
        context_sim == s.context_sims[i][j]
    IN  [english_idiom         |-> en_idiom,
         english_context       |-> Representative(en_idioms[i].contexts),
         tgt_idiom             |-> tgt_idiom,
         tgt_context           |-> Representative(target_idioms[j].contexts),
         english_translation   |-> Representative(target_idioms[j].english_translations),
         weighted_similarity   |-> compute_weighted_similarity(idiom_sim, context_sim, en_idiom, tgt_idiom, cfg.idiom_weight, cfg.context_weight, TRUE),
         idiom_only_similarity |-> idiom_sim,
         context_similarity    |-> context_sim,
         lexical_overlap       |-> calculate_lexical_overlap(en_idiom, tgt_idiom),
         en_idx                |-> i,
         tgt_idx               |-> j]

\* The record the basic analyses build for the pair (i, j).
BasicMatch(en_idioms, target_idioms, s, i, j) ==
    [english_idiom       |-> en_idioms[i].idiom,
     english_context     |-> Representative(en_idioms[i].contexts),
     tgt_idiom           |-> target_idioms[j].idiom,
     tgt_context         |-> Representative(target_idioms[j].contexts),
     english_translation |-> Representative(target_idioms[j].english_translations),
     similarity          |-> s.similarities[i][j],
     en_idx              |-> i,
     tgt_idx             |-> j]

\* The index pairs in the order of the nested loops: source outer, target inner.
LoopPairs(M, N) == [k \in 1..(M * N) |-> <<((k - 1) \div N) + 1, ((k - 1) % N) + 1>>]

\* weighted_sim of the pair (i, j), computed before the record is built.
PairWeightedSim(en_idioms, target_idioms, s, cfg, i, j) ==
    compute_weighted_similarity(s.idiom_only_sims[i][j], s.context_sims[i][j], en_idioms[i].idiom, target_idioms[j].idiom, cfg.idiom_weight, cfg.context_weight, TRUE)

\* all_matches of the improved analysis: a record is built only for the
\* pairs at or above the threshold.
ImprovedAllMatches(en_idioms, target_idioms, s, cfg) ==
    LET pairs == LoopPairs(Len(en_idioms), Len(target_idioms))
        kept  == SelectSeq(pairs, LAMBDA p : AboveThreshold(PairWeightedSim(en_idioms, target_idioms, s, cfg, p[1], p[2]), cfg.min_threshold))
    IN  [k \in 1..Len(kept) |->
            ImprovedMatch(en_idioms, target_idioms, s, cfg, kept[k][1], kept[k][2])]

\* all_matches of the basic analyses: every pair.
BasicAllMatches(en_idioms, target_idioms, s) ==
    LET pairs == LoopPairs(Len(en_idioms), Len(target_idioms))
    IN  [k \in 1..Len(pairs) |->
            BasicMatch(en_idioms, target_idioms, s, pairs[k][1], pairs[k][2])]

\* The key the lists are sorted by.
ScoreKey(scr) == IF scr = "improved" THEN "weighted_similarity" ELSE "similarity"

\* The matrix the loops index.
LoopMatrix(scr, s) == IF scr = "improved" THEN s.idiom_only_sims ELSE s.similarities

\* What the Mode A iteration for the pair (i, j) raises: IndexError from
\* numpy outside the matrix, KeyError when a record is built from an idiom
\* without one of the subscripted keys.
RaisedByPair(scr, en_idioms, target_idioms, s, cfg, i, j) ==
    IF ~InMatrix(LoopMatrix(scr, s), i, j)
    THEN "IndexError"
    ELSE IF scr = "improved" /\ ~AboveThreshold(PairWeightedSim(en_idioms, target_idioms, s, cfg, i, j), cfg.min_threshold)
         THEN "none"
         ELSE IF HasKeys(en_idioms[i], EnglishKeys) /\ HasKeys(target_idioms[j], TargetKeys)
              THEN "none"
              ELSE "KeyError"

\* Mode A of one analysis: the sorted list, or the exception of the first
\* pair that raises one.
ModeA(scr, en_idioms, target_idioms, s, cfg) ==
    LET pairs  == LoopPairs(Len(en_idioms), Len(target_idioms))
        raised == FirstRaised([k \in 1..Len(pairs) |->
                      RaisedByPair(scr, en_idioms, target_idioms, s, cfg, pairs[k][1], pairs[k][2])])
    IN  IF raised # "none"
        THEN [raised |-> raised, value |-> <<>>]
        ELSE [raised |-> "none",
              value  |-> sorted_reverse(
                            IF scr = "improved"
                            THEN ImprovedAllMatches(en_idioms, target_idioms, s, cfg)
                            ELSE BasicAllMatches(en_idioms, target_idioms, s),
                            ScoreKey(scr))]

-----------------------------------------------------------------------------
(* Mode B: best match per target idiom *)

\* best_score, best_en_idx, best_idiom_sim, best_context_sim before the scan.
InitialBest ==
    [best_score |-> Rat(-1, 1), best_en_idx |-> MinusOne,
     best_idiom_sim |-> Zero, best_context_sim |-> Zero]

\* Mutant of Improves: the scan keeps a lower score.
Improves_Lower(weighted_sim, best_score) == RLt(weighted_sim, best_score)

\* "if weighted_sim > best_score"
Improves(weighted_sim, best_score) == RGt(weighted_sim, best_score)

\* The values one iteration of the scan computes for source en_idx.
Candidate(en_idioms, tgt_idiom, s, cfg, j, en_idx) ==
    [best_score       |-> compute_weighted_similarity(s.idiom_only_sims[en_idx][j], s.context_sims[en_idx][j], en_idioms[en_idx].idiom, tgt_idiom, cfg.idiom_weight, cfg.context_weight, TRUE),
     best_en_idx      |-> en_idx,
     best_idiom_sim   |-> s.idiom_only_sims[en_idx][j],
     best_context_sim |-> s.context_sims[en_idx][j]]

\* One iteration: the candidate replaces the best only if it improves on it.
Keep(best, candidate) ==
    IF Improves(candidate.best_score, best.best_score) THEN candidate ELSE best

\* The best after the first n iterations of the scan for target j.
RECURSIVE BestScan(_, _, _, _, _, _)
BestScan(en_idioms, tgt_idiom, s, cfg, j, n) ==
    IF n = 0
    THEN InitialBest
    ELSE Keep(BestScan(en_idioms, tgt_idiom, s, cfg, j, n - 1),
              Candidate(en_idioms, tgt_idiom, s, cfg, j, n))

\* The record the improved analysis builds for target j.
ImprovedBestMatch(en_idioms, target_idioms, s, cfg, j) ==
    LET tgt_idiom_data == target_idioms[j]
        best == BestScan(en_idioms, tgt_idiom_data.idiom, s, cfg, j, Len(en_idioms))
        en   == PyIndex(en_idioms, best.best_en_idx)
    IN  [tgt_idiom             |-> tgt_idiom_data.idiom,
         tgt_context           |-> Representative(tgt_idiom_data.contexts),
         english_translation   |-> Representative(tgt_idiom_data.english_translations),
         best_english_match    |-> en.idiom,
         english_context       |-> Representative(en.contexts),
         weighted_similarity   |-> best.best_score,
         idiom_only_similarity |-> best.best_idiom_sim,
         context_similarity    |-> best.best_context_sim,
         lexical_overlap       |-> calculate_lexical_overlap(en.idiom, tgt_idiom_data.idiom),
         en_idx                |-> IF best.best_en_idx = MinusOne
                                   THEN Len(en_idioms) ELSE best.best_en_idx,
         tgt_idx               |-> j]

\* What the improved Mode B iteration for target j raises: IndexError from
\* numpy outside the matrix and from en_idioms[-1] on an empty list, then
\* KeyError from the subscripts of the record.
RaisedByTarget(en_idioms, target_idioms, s, cfg, j) ==
    LET M == Len(en_idioms)
    IN  IF M = 0 \/ ~InMatrix(s.idiom_only_sims, M, j)
        THEN "IndexError"
        ELSE IF /\ HasKeys(target_idioms[j], TargetKeys)
                /\ HasKeys(PyIndex(en_idioms, BestScan(en_idioms, target_idioms[j].idiom, s, cfg, j, M).best_en_idx), EnglishKeys)
             THEN "none"
             ELSE "KeyError"

\* Mutant of ImprovedBestMatches: best matches below the threshold dropped.
ImprovedBestMatches_Filtered(en_idioms, target_idioms, s, cfg) ==
    LET N      == Len(target_idioms)
        raised == FirstRaised([j \in 1..N |-> RaisedByTarget(en_idioms, target_idioms, s, cfg, j)])
    IN  IF raised # "none"
        THEN [raised |-> raised, value |-> <<>>]
        ELSE [raised |-> "none",
              value  |-> SelectSeq([j \in 1..N |-> ImprovedBestMatch(en_idioms, target_idioms, s, cfg, j)],
                                   LAMBDA m : AboveThreshold(m.weighted_similarity, cfg.min_threshold))]

\* Mode B of the improved analysis: unsorted list, or the exception of the
\* first target that raises one.
ImprovedBestMatches(en_idioms, target_idioms, s, cfg) ==
    LET N      == Len(target_idioms)
        raised == FirstRaised([j \in 1..N |-> RaisedByTarget(en_idioms, target_idioms, s, cfg, j)])
    IN  IF raised # "none"
        THEN [raised |-> raised, value |-> <<>>]
        ELSE [raised |-> "none",
              value  |-> [j \in 1..N |-> ImprovedBestMatch(en_idioms, target_idioms, s, cfg, j)]]

\* np.argmax: the first position of the maximum.
argmax(col) ==
    CHOOSE i \in 1..Len(col) :
        /\ \A k \in 1..Len(col) : RLe(col[k], col[i])
        /\ \A k \in 1..(i - 1) : RLt(col[k], col[i])

\* similarities[:, j]
Column(m, j) == [i \in 1..Rows(m) |-> m[i][j]]

\* The record the basic analyses build for target j.
BasicBestMatch(en_idioms, target_idioms, s, j) ==
    LET col         == Column(s.similarities, j)
        best_en_idx == argmax(col)
    IN  [tgt_idiom           |-> target_idioms[j].idiom,
         tgt_context         |-> Representative(target_idioms[j].contexts),
         english_translation |-> Representative(target_idioms[j].english_translations),
         best_english_match  |-> en_idioms[best_en_idx].idiom,
         english_context     |-> Representative(en_idioms[best_en_idx].contexts),
         similarity          |-> col[best_en_idx],
         en_idx              |-> best_en_idx,
         tgt_idx             |-> j]

\* What the basic Mode B iteration for target j raises: IndexError for a
\* target without a column or a best row without an idiom, KeyError from the
\* subscripts of the record, in the order the record evaluates them.
RaisedByBasicTarget(en_idioms, target_idioms, s, j) ==
    IF j > Cols(s.similarities)
    THEN "IndexError"
    ELSE IF ~HasKeys(target_idioms[j], TargetKeys)
         THEN "KeyError"
         ELSE IF argmax(Column(s.similarities, j)) > Len(en_idioms)
              THEN "IndexError"
              ELSE IF ~HasKeys(en_idioms[argmax(Column(s.similarities, j))], EnglishKeys)
                   THEN "KeyError"
                   ELSE "none"

\* Mode B of the basic analyses: unsorted list, or the exception of the
\* first target that raises one.
BasicBestMatches(en_idioms, target_idioms, s) ==
    LET N      == Len(target_idioms)
        raised == FirstRaised([j \in 1..N |-> RaisedByBasicTarget(en_idioms, target_idioms, s, j)])
    IN  IF raised # "none"
        THEN [raised |-> raised, value |-> <<>>]
        ELSE [raised |-> "none",
              value  |-> [j \in 1..N |-> BasicBestMatch(en_idioms, target_idioms, s, j)]]

\* Mutant of ModeB: the list is left in target order.
ModeB_Unsorted(scr, en_idioms, target_idioms, s, cfg) ==
    IF scr = "improved"
    THEN ImprovedBestMatches(en_idioms, target_idioms, s, cfg)
    ELSE BasicBestMatches(en_idioms, target_idioms, s)

\* Mode B of one analysis: the sorted list, or the exception.
ModeB(scr, en_idioms, target_idioms, s, cfg) ==
    LET got == IF scr = "improved"
               THEN ImprovedBestMatches(en_idioms, target_idioms, s, cfg)
               ELSE BasicBestMatches(en_idioms, target_idioms, s)
    IN  [raised |-> got.raised, value |-> sorted_reverse(got.value, ScoreKey(scr))]

-----------------------------------------------------------------------------
(* Result files *)

\* The column header: the keys of the first record, in insertion order.
Header(scr) ==
    IF scr = "improved"
    THEN <<"english_idiom", "english_context", "tgt_idiom", "tgt_context",
           "english_translation", "weighted_similarity", "idiom_only_similarity",
           "context_similarity", "lexical_overlap">>
    ELSE <<"english_idiom", "english_context", "tgt_idiom", "tgt_context",
           "english_translation", "similarity">>

\* Mutant of TopExported: every record is written.
TopExported_All(list) == [k \in 1..Len(list) |-> Exported(list[k])]

\* The first 100 records as written.
TopExported(list) == LET top == Take(list, ExportLimit)
                     IN  [k \in 1..Len(top) |-> Exported(top[k])]

AllExported(list) == [k \in 1..Len(list) |-> Exported(list[k])]

\* The csv file: the improved analysis writes header and rows only for a
\* non-empty list; the basic ones read all_matches_sorted[0] unguarded.
CsvWrite(scr, list) ==
    IF list # <<>>
    THEN [raised |-> "none", content |-> [header |-> Header(scr), rows |-> TopExported(list)]]
    ELSE [raised  |-> IF scr = "improved" THEN "none" ELSE "IndexError",
          content |-> [header |-> <<>>, rows |-> <<>>]]

\* The file system after writing content under name.
Written(fs, name, content) ==
    [n \in (DOMAIN fs) \cup {name} |-> IF n = name THEN content ELSE fs[n]]

\* Mutant of FileName: one set of files shared by all language pairs.
FileName_Shared(scr, code, kind) == <<scr, "all", kind>>

\* The files are named after the script's results directory and the
\* language code.
FileName(scr, code, kind) == <<scr, code, kind>>

-----------------------------------------------------------------------------
(* Statistics *)

Scores(list, key) == [k \in 1..Len(list) |-> list[k][key]]

\* xs[lo] + ... + xs[hi], added up by halves.
RECURSIVE SumRange(_, _, _)
SumRange(xs, lo, hi) ==
    IF lo > hi THEN Zero
    ELSE IF lo = hi THEN xs[lo]
    ELSE RAdd(SumRange(xs, lo, (lo + hi) \div 2), SumRange(xs, ((lo + hi) \div 2) + 1, hi))

Sum(xs) == SumRange(xs, 1, Len(xs))

\* xs in ascending order.
SortedAscending(xs) ==
    LET n    == Len(xs)
        rank == [i \in 1..n |->
                    1 + Cardinality({j \in 1..n :
                            RLt(xs[j], xs[i]) \/ (xs[j] = xs[i] /\ j < i)})]
    IN  [p \in 1..n |-> xs[CHOOSE i \in 1..n : rank[i] = p]]

\* np.mean, np.median, np.min, np.max of a non-empty list.
mean(xs) == RDiv(Sum(xs), Rat(Len(xs), 1))

median(xs) ==
    LET sorted == SortedAscending(xs)
        n      == Len(xs)
    IN  IF n % 2 = 1
        THEN sorted[(n + 1) \div 2]
        ELSE RMul(RAdd(sorted[n \div 2], sorted[(n \div 2) + 1]), Rat(1, 2))

min(xs) == SortedAscending(xs)[1]
max(xs) == SortedAscending(xs)[Len(xs)]

\* The cut points of the distribution tables.
Cutoffs(scr) ==
    IF scr = "improved"
    THEN <<Rat(5, 10), Rat(6, 10), Rat(7, 10), Rat(8, 10), Rat(9, 10)>>
    ELSE <<Rat(3, 10), Rat(4, 10), Rat(5, 10), Rat(6, 10), Rat(7, 10), Rat(8, 10)>>

\* "count = sum(1 for s in xs if s >= thresh)"
CountAtLeast(xs, thresh) == Cardinality({i \in 1..Len(xs) : RGe(xs[i], thresh)})

\* One line per cut point: count and "count / len(xs) * 100", for non-empty xs.
Distribution(xs, cutoffs) ==
    [k \in 1..Len(cutoffs) |->
        [thresh |-> cutoffs[k],
         count  |-> CountAtLeast(xs, cutoffs[k]),
         pct    |-> Rat(CountAtLeast(xs, cutoffs[k]) * 100, Len(xs))]]

\* Mean, median, min and max of a non-empty list.
Describe(xs) == [mean |-> mean(xs), median |-> median(xs), min |-> min(xs), max |-> max(xs)]

\* similarities.flatten()
Flatten(m) == [k \in 1..(Rows(m) * Cols(m)) |->
                  m[((k - 1) \div Cols(m)) + 1][((k - 1) % Cols(m)) + 1]]

\* The block "if weighted_scores:" of the improved analysis: nothing is
\* computed for an empty list.
AboveThresholdStatistics(matches) ==
    IF matches = <<>>
    THEN <<>>
    ELSE <<[count      |-> Len(matches),
            weighted   |-> [mean   |-> mean(Scores(matches, "weighted_similarity")),
                            median |-> median(Scores(matches, "weighted_similarity"))],
            idiom_only |-> [mean   |-> mean(Scores(matches, "idiom_only_similarity")),
                            median |-> median(Scores(matches, "idiom_only_similarity"))],
            context    |-> [mean   |-> mean(Scores(matches, "context_similarity")),
                            median |-> median(Scores(matches, "context_similarity"))],
            overlap    |-> [mean   |-> mean(Scores(matches, "lexical_overlap")),
                            median |-> median(Scores(matches, "lexical_overlap"))],
            high_overlap |-> Cardinality({i \in 1..Len(matches) :
                                 RGt(matches[i].lexical_overlap, Rat(4, 10))})]>>

\* The best-match statistics. For an empty list np.mean and np.median only
\* warn and give nan, np.min raises ValueError; the division by
\* len(best) comes after it.
BestStatistics(scr, best) ==
    IF best = <<>>
    THEN [raised |-> "ValueError", value |-> <<>>]
    ELSE [raised |-> "none",
          value  |-> <<[summary      |-> Describe(Scores(best, ScoreKey(scr))),
                        distribution |-> Distribution(Scores(best, ScoreKey(scr)), Cutoffs(scr))]>>]

\* The statistics section of one analysis. The standard deviation the basic
\* analyses print is left out (no exact value; it raises nothing).
Statistics(scr, matches, best, s) ==
    LET b == BestStatistics(scr, best)
    IN  [raised |-> b.raised,
         value  |-> [above     |-> IF scr = "improved" THEN AboveThresholdStatistics(matches)
                                   ELSE <<>>,
                     all_pairs |-> IF scr = "improved" THEN <<>>
                                   ELSE <<[summary |-> Describe(Flatten(s.similarities)),
                                           distribution |->
                                               IF scr = "cross_lingual" /\ b.raised = "none"
                                               THEN Distribution(Flatten(s.similarities), Cutoffs(scr))
                                               ELSE <<>>]>>,
                     best      |-> b.value]]

NoStatistics == [above |-> <<>>, all_pairs |-> <<>>, best |-> <<>>]

-----------------------------------------------------------------------------
(* The programs *)

NoSims == [similarities |-> <<>>, idiom_only_sims |-> <<>>, context_sims |-> <<>>]
NoTarget == [code |-> "", data |-> Pickle(<<>>)]
NoCall == [idiom_only_sim |-> Zero, context_sim |-> Zero, idiom1 |-> <<>>, idiom2 |-> <<>>,
           idiom_weight |-> Zero, context_weight |-> Zero, lexical_penalty |-> FALSE]
NoFiles == [n \in {} |-> <<>>]
NoError == [type |-> "none", at |-> "none"]

\* The exception of type raised (or none) by the step at.
Raised(raised, at) == IF raised = "none" THEN NoError ELSE [type |-> raised, at |-> at]

\* The language pairs each main() analyses, in order.
Languages(scr) ==
    CASE scr = "improved"         -> <<"fr", "fi", "jp">>
      [] scr = "finnish_japanese" -> <<"fi", "jp">>
      [] scr = "cross_lingual"    -> <<"fr">>

\* The target pickles of the batch runs: collections of one idiom entry.
BatchPool == {Target_e}
BatchPickles == {Pickle(c) : c \in SeqsUpTo(BatchPool, MaxIdioms)}

\* The English pickles of the batch runs: two idioms of different text and
\* equal embeddings, which tie on every target.
BatchEnglishPool == {English_a_b, English_A_d}
BatchEnglishPickles == {Pickle(c) : c \in SeqsUpTo(BatchEnglishPool, MaxIdioms)}

\* The collections of the large run.
LargeEnglish == <<English_a_b, English_A_d>>
LargeTarget == [k \in 1..LargeIdioms |->
                   CASE k % 3 = 1 -> Target_a_c
                     [] k % 3 = 2 -> Target_e
                     [] k % 3 = 0 -> Target_f_g]

Idle ==
    /\ pc = "main"
    /\ target = NoTarget
    /\ sims = NoSims
    /\ all_matches_sorted = <<>>
    /\ target_best_matches_sorted = <<>>
    /\ stats = NoStatistics
    /\ files = NoFiles
    /\ results = <<>>
    /\ error = NoError
    /\ call = NoCall
    /\ ret = <<>>
    /\ top_k_matches = <<>>

\* One analysis on its own: a call of analyze_language_pair, or the
\* single-pair script.
InitCall ==
    /\ script \in Scripts
    /\ config \in (IF script = "improved" THEN Configs \cup {LimitConfig}
                    ELSE {DefaultConfig})
    /\ en_data \in Pickles(EnglishPool, English_a_b)
    /\ \E d \in Pickles(TargetPool, Target_a_c) : todo = <<[code |-> "fr", data |-> d]>>
    /\ Idle

\* A batch run of main(): every language pair of the script, in its order.
InitMain ==
    /\ script \in {"improved", "finnish_japanese"}
    /\ config = DefaultConfig
    /\ en_data \in BatchEnglishPickles
    /\ \E ds \in [1..Len(Languages(script)) -> BatchPickles] :
           todo = [k \in 1..Len(Languages(script)) |->
                      [code |-> Languages(script)[k], data |-> ds[k]]]
    /\ Idle

\* One improved analysis of collections large enough for the export to
\* truncate.
InitLarge ==
    /\ script = "improved"
    /\ config = DefaultConfig
    /\ en_data = Pickle(LargeEnglish)
    /\ todo = <<[code |-> "fr", data |-> Pickle(LargeTarget)]>>
    /\ Idle

\* One analysis of collections in which an idiom record lacks the
\* 'contexts' and 'english_translations' keys.
SparseEnglish == {Pickle(<<English_bare>>), Pickle(<<English_a_b>>), Pickle(<<English_a_b, English_bare>>)}
SparseTargets == {Pickle(<<Target_bare>>), Pickle(<<Target_a_c>>), Pickle(<<Target_a_c, Target_bare>>)}

InitSparse ==
    /\ script \in Scripts
    /\ config = DefaultConfig
    /\ en_data \in SparseEnglish
    /\ \E d \in SparseTargets : todo = <<[code |-> "fr", data |-> d]>>
    /\ Idle

\* One analysis in which a target idiom has the words and the embeddings of
\* an English idiom.
SameTargets == {Pickle(<<Target_a_b>>), Pickle(<<Target_a_b, Target_a_c>>), Pickle(<<Target_a_c, Target_a_b>>)}

InitSame ==
    /\ script \in Scripts
    /\ config \in (IF script = "improved" THEN Configs ELSE {DefaultConfig})
    /\ en_data \in {Pickle(<<English_a_b>>), Pickle(<<English_a_b, English_A_d>>)}
    /\ \E d \in SameTargets : todo = <<[code |-> "fr", data |-> d]>>
    /\ Idle

Init == InitCall \/ InitMain \/ InitLarge \/ InitSparse \/ InitSame

pure == <<call, ret, top_k_matches>>
inputs == <<script, config, en_data>>

\* The caller calls the analysis of the next language pair. A call that
\* passes an export limit names a parameter the function does not have:
\* Python raises TypeError before the body runs.
CallAnalysis ==
    /\ pc = "main"
    /\ todo # <<>>
    /\ target' = Head(todo)
    /\ todo' = Tail(todo)
    /\ sims' = NoSims
    /\ all_matches_sorted' = <<>>
    /\ target_best_matches_sorted' = <<>>
    /\ stats' = NoStatistics
    /\ IF config.export_limit # <<>>
       THEN /\ error' = Raised("TypeError", "call")
            /\ pc' = "raised"
       ELSE /\ error' = error
            /\ pc' = "similarities"
    /\ UNCHANGED <<inputs, files, results, pure>>

\* The similarity matrices (two in the improved analysis, one otherwise).
ComputeSimilarities ==
    /\ pc = "similarities"
    /\ LET en  == en_data
           tg  == target.data
           io  == cosine_similarity(en.idiom_only_embeddings, tg.idiom_only_embeddings)
           ic  == cosine_similarity(en.idiom_context_embeddings, tg.idiom_context_embeddings)
           one == cosine_similarity(Embeddings(en), Embeddings(tg))
           raised == IF script = "improved"
                     THEN (IF io.raised # "none" THEN io.raised ELSE ic.raised)
                     ELSE one.raised
       IN  IF raised # "none"
           THEN /\ error' = Raised(raised, "similarities")
                /\ pc' = "raised"
                /\ sims' = sims
           ELSE /\ error' = error
                /\ pc' = "mode_a"
                /\ sims' = IF script = "improved"
                           THEN [NoSims EXCEPT !.idiom_only_sims = io.value,
                                               !.context_sims = ic.value]
                           ELSE [NoSims EXCEPT !.similarities = one.value]
    /\ UNCHANGED <<inputs, todo, target, all_matches_sorted, target_best_matches_sorted,
                   stats, files, results, pure>>

\* Mutant of ComputeAllMatches: a sort that may exchange the first two
\* records when their scores are equal.
ComputeAllMatches_TiesAnyOrder ==
    /\ pc = "mode_a"
    /\ \E got \in {ModeA(script, en_data.idioms, target.data.idioms, sims, config)} :
       \E l \in {got.value} :
           /\ \E k \in 0..(IF Len(l) > 1 THEN 1 ELSE 0) :
                  all_matches_sorted' =
                      IF k > 0 /\ l[k][ScoreKey(script)] = l[k + 1][ScoreKey(script)]
                      THEN <<l[k + 1], l[k]>> \o SubSeq(l, 3, Len(l))
                      ELSE l
           /\ error' = Raised(got.raised, "mode_a")
           /\ pc' = IF got.raised = "none" THEN "save_a" ELSE "raised"
    /\ UNCHANGED <<inputs, todo, target, sims, target_best_matches_sorted, stats, files,
                   results, pure>>

\* The all-pairs loop and its sort.
ComputeAllMatches ==
    /\ pc = "mode_a"
    /\ \E got \in {ModeA(script, en_data.idioms, target.data.idioms, sims, config)} :
           /\ all_matches_sorted' = got.value
           /\ error' = Raised(got.raised, "mode_a")
           /\ pc' = IF got.raised = "none" THEN "save_a" ELSE "raised"
    /\ UNCHANGED <<inputs, todo, target, sims, target_best_matches_sorted, stats, files,
                   results, pure>>

\* The json file of the top matches, then the csv file.
SaveAllMatches ==
    /\ pc = "save_a"
    /\ LET csv == CsvWrite(script, all_matches_sorted)
           fs1 == Written(files, FileName(script, target.code, "matches.json"),
                          TopExported(all_matches_sorted))
       IN  /\ files' = Written(fs1, FileName(script, target.code, "matches.csv"), csv.content)
           /\ error' = Raised(csv.raised, "save_a")
           /\ pc' = IF csv.raised = "none" THEN "mode_b" ELSE "raised"
    /\ UNCHANGED <<inputs, todo, target, sims, all_matches_sorted,
                   target_best_matches_sorted, stats, results, pure>>

\* The best-match loop and its sort.
ComputeBestMatches ==
    /\ pc = "mode_b"
    /\ \E got \in {ModeB(script, en_data.idioms, target.data.idioms, sims, config)} :
           /\ target_best_matches_sorted' = got.value
           /\ error' = Raised(got.raised, "mode_b")
           /\ pc' = IF got.raised = "none" THEN "save_b" ELSE "raised"
    /\ UNCHANGED <<inputs, todo, target, sims, all_matches_sorted, stats, files,
                   results, pure>>

\* The json file of all best matches.
SaveBestMatches ==
    /\ pc = "save_b"
    /\ files' = Written(files, FileName(script, target.code, "best_matches.json"),
                        AllExported(target_best_matches_sorted))
    /\ pc' = "statistics"
    /\ UNCHANGED <<inputs, todo, target, sims, all_matches_sorted,
                   target_best_matches_sorted, stats, results, error, pure>>

\* The statistics section.
ComputeStatistics ==
    /\ pc = "statistics"
    /\ LET got == Statistics(script, all_matches_sorted, target_best_matches_sorted, sims)
       IN  /\ stats' = got.value
           /\ error' = Raised(got.raised, "statistics")
           /\ pc' = IF got.raised = "none" THEN "return" ELSE "raised"
    /\ UNCHANGED <<inputs, todo, target, sims, all_matches_sorted,
                   target_best_matches_sorted, files, results, pure>>

\* "return len(all_matches_sorted), target_best_matches_sorted", kept by
\* main() next to the pickle it loaded for the language.
Return ==
    /\ pc = "return"
    /\ results' = Append(results, [code    |-> target.code,
                                   data    |-> target.data,
                                   count   |-> Len(all_matches_sorted),
                                   matches |-> target_best_matches_sorted])
    /\ pc' = "main"
    /\ UNCHANGED <<inputs, todo, target, sims, all_matches_sorted,
                   target_best_matches_sorted, stats, files, error, pure>>

\* main() prints the summary and returns.
Summary ==
    /\ pc = "main"
    /\ todo = <<>>
    /\ pc' = "done"
    /\ UNCHANGED <<inputs, todo, target, sims, all_matches_sorted,
                   target_best_matches_sorted, stats, files, results, error, pure>>

\* The exception leaves analyze_language_pair and main(); the handler around
\* main() prints it and the program ends.
HandleException ==
    /\ pc = "raised"
    /\ pc' = "failed"
    /\ UNCHANGED <<inputs, todo, target, sims, all_matches_sorted,
                   target_best_matches_sorted, stats, files, results, error, pure>>

Next ==
    \/ CallAnalysis
    \/ ComputeSimilarities
    \/ ComputeAllMatches
    \/ SaveAllMatches
    \/ ComputeBestMatches
    \/ SaveBestMatches
    \/ ComputeStatistics
    \/ Return
    \/ Summary
    \/ HandleException

Spec == Init /\ [][Next]_vars

-----------------------------------------------------------------------------
(* Direct calls of the scorer *)

ScorerSims == {Rat(-1, 1), Zero, Rat(6, 10), Rat(61, 100), Rat(3, 4), Rat(8, 10),
               Rat(9, 10), One}
ScorerContextSims == {Zero, Rat(8, 10), One}
ScorerTexts1 == {<<>>, Txt_a_b, Txt_c, Txt_A_d, Words(3), Words(31)}
ScorerTexts2 == {Txt_a_b, Txt_a_c, Txt_c, Words(10), Words(100)}
ScorerWeights == {<<DefaultIdiomWeight, DefaultContextWeight>>, <<One, One>>,
                  <<Rat(-1, 1), One>>}

\* A caller is about to call compute_weighted_similarity with any arguments.
InitScorer ==
    /\ script = "improved"
    /\ config = DefaultConfig
    /\ en_data = Pickle(<<>>)
    /\ todo = <<>>
    /\ target = NoTarget
    /\ sims = NoSims
    /\ all_matches_sorted = <<>>
    /\ target_best_matches_sorted = <<>>
    /\ stats = NoStatistics
    /\ files = NoFiles
    /\ results = <<>>
    /\ error = NoError
    /\ pc = "scorer_call"
    /\ ret = <<>>
    /\ top_k_matches = <<>>
    /\ \E i \in ScorerSims, c \in ScorerContextSims, t1 \in ScorerTexts1, t2 \in ScorerTexts2,
          w \in ScorerWeights, p \in BOOLEAN :
           call = [idiom_only_sim |-> i, context_sim |-> c, idiom1 |-> t1, idiom2 |-> t2,
                   idiom_weight |-> w[1], context_weight |-> w[2], lexical_penalty |-> p]

\* The call returns; ret lists the values returned so far, the latest first.
ScorerReturn ==
    /\ pc = "scorer_call"
    /\ ret' = <<compute_weighted_similarity(call.idiom_only_sim, call.context_sim, call.idiom1, call.idiom2, call.idiom_weight, call.context_weight, call.lexical_penalty)>> \o ret
    /\ pc' = "scorer_returned"
    /\ UNCHANGED <<inputs, todo, target, sims, all_matches_sorted,
                   target_best_matches_sorted, stats, files, results, error, call, top_k_matches>>

\* The caller calls once more, with a larger idiom_only_sim and every other
\* argument as before.
ScorerCallAgain ==
    /\ pc = "scorer_returned"
    /\ Len(ret) = 1
    /\ \E larger \in ScorerSims :
           /\ RGt(larger, call.idiom_only_sim)
           /\ call' = [call EXCEPT !.idiom_only_sim = larger]
    /\ pc' = "scorer_call"
    /\ UNCHANGED <<inputs, todo, target, sims, all_matches_sorted,
                   target_best_matches_sorted, stats, files, results, error, ret, top_k_matches>>

NextScorer == ScorerReturn \/ ScorerCallAgain

SpecScorer == InitScorer /\ [][NextScorer]_vars

-----------------------------------------------------------------------------
(* calculate_lexical_overlap called on its own *)

OverlapTexts == {<<>>, Txt_bang, Txt_a_b, Txt_A_b_bang, Txt_a_a_b, Txt_c, Txt_a_c,
                 Txt_A_d, Txt_e, Txt_f_g, Words(3), Words(10)}

\* A caller is about to call calculate_lexical_overlap on any two texts.
InitOverlap ==
    /\ script = "improved"
    /\ config = DefaultConfig
    /\ en_data = Pickle(<<>>)
    /\ todo = <<>>
    /\ target = NoTarget
    /\ sims = NoSims
    /\ all_matches_sorted = <<>>
    /\ target_best_matches_sorted = <<>>
    /\ stats = NoStatistics
    /\ files = NoFiles
    /\ results = <<>>
    /\ error = NoError
    /\ pc = "overlap_call"
    /\ ret = <<>>
    /\ top_k_matches = <<>>
    /\ \E t1 \in OverlapTexts, t2 \in OverlapTexts :
           call = [NoCall EXCEPT !.idiom1 = t1, !.idiom2 = t2]

\* The call returns; ret lists the values returned so far, the latest first.
OverlapReturn ==
    /\ pc = "overlap_call"
    /\ ret' = <<calculate_lexical_overlap(call.idiom1, call.idiom2)>> \o ret
    /\ pc' = "overlap_returned"
    /\ UNCHANGED <<inputs, todo, target, sims, all_matches_sorted,
                   target_best_matches_sorted, stats, files, results, error, call, top_k_matches>>

\* The caller calls once more with the two texts exchanged.
OverlapCallSwapped ==
    /\ pc = "overlap_returned"
    /\ Len(ret) = 1
    /\ call' = [call EXCEPT !.idiom1 = call.idiom2, !.idiom2 = call.idiom1]
    /\ pc' = "overlap_call"
    /\ UNCHANGED <<inputs, todo, target, sims, all_matches_sorted,
                   target_best_matches_sorted, stats, files, results, error, ret, top_k_matches>>

NextOverlap == OverlapReturn \/ OverlapCallSwapped

SpecOverlap == InitOverlap /\ [][NextOverlap]_vars

-----------------------------------------------------------------------------
(* Claims *)

\* The base score of the pending or returned scorer call, from its arguments.
CallBase == RAdd(RMul(call.idiom_weight, call.idiom_only_sim),
                 RMul(call.context_weight, call.context_sim))

CallOverlap == calculate_lexical_overlap(call.idiom1, call.idiom2)

\* The case in which the penalty is due.
CallPenalised ==
    /\ call.lexical_penalty
    /\ CallOverlap.n * 10 > 3 * CallOverlap.d
    /\ CallBase.n * 10 > 6 * CallBase.d

\* C1: compute_weighted_similarity returns base * (1 - overlap * 0.5) exactly
\* when the penalty is enabled, overlap > 0.3 and base > 0.6, and base
\* unchanged in every other case; overlap 0.5 with base 0.75 yields 0.5625.
C1_ScorerContract ==
    pc = "scorer_returned" =>
        /\ CallPenalised =>
              ret[1] = Rat(CallBase.n * (2 * CallOverlap.d - CallOverlap.n),
                           CallBase.d * 2 * CallOverlap.d)
        /\ ~CallPenalised => ret[1] = CallBase
        /\ (CallPenalised /\ CallOverlap = Rat(1, 2) /\ CallBase = Rat(3, 4)) =>
              ret[1] = Rat(5625, 10000)

\* C1 witness: a penalised call with overlap 0.5 and base 0.75 has returned.
C1_Witness ==
    /\ pc = "scorer_returned"
    /\ CallPenalised
    /\ CallOverlap = Rat(1, 2)
    /\ CallBase = Rat(3, 4)
    /\ ret[1] = Rat(9, 16)

\* The collections of the analysis in progress.
en_idioms == en_data.idioms
target_idioms == target.data.idioms

Improved == script = "improved"

\* The Mode A list, respectively the Mode B list, of the analysis in progress
\* has been built.
ModeADone == pc \in {"save_a", "mode_b", "save_b", "statistics", "return"}
ModeBDone == pc \in {"save_b", "statistics", "return"}

\* The final weighted score of the pair (i, j) in the improved analysis.
PairScore(i, j) ==
    compute_weighted_similarity(sims.idiom_only_sims[i][j], sims.context_sims[i][j], en_idioms[i].idiom, target_idioms[j].idiom, config.idiom_weight, config.context_weight, TRUE)

\* The records of a list built for the pair (i, j).
RecordsOf(list, i, j) == {k \in 1..Len(list) : list[k].en_idx = i /\ list[k].tgt_idx = j}

\* C2: the improved Mode A list holds a record for a pair iff the pair's
\* final weighted score is >= min_threshold (inclusive); each qualifying pair
\* of the cross product appears exactly once, no other pair appears.
C2_ThresholdFilter ==
    (Improved /\ ModeADone) =>
        /\ \A i \in 1..Len(en_idioms), j \in 1..Len(target_idioms) :
              Cardinality(RecordsOf(all_matches_sorted, i, j)) =
                  IF PairScore(i, j).n * config.min_threshold.d
                         >= config.min_threshold.n * PairScore(i, j).d
                  THEN 1 ELSE 0
        /\ \A k \in 1..Len(all_matches_sorted) :
              /\ all_matches_sorted[k].en_idx \in 1..Len(en_idioms)
              /\ all_matches_sorted[k].tgt_idx \in 1..Len(target_idioms)
              /\ all_matches_sorted[k].weighted_similarity =
                     PairScore(all_matches_sorted[k].en_idx, all_matches_sorted[k].tgt_idx)

\* C2 witness: a pair scoring exactly the threshold is in the list and a pair
\* scoring less is not.
C2_Witness ==
    /\ Improved
    /\ ModeADone
    /\ \E i \in 1..Len(en_idioms), j \in 1..Len(target_idioms) :
          /\ PairScore(i, j) = config.min_threshold
          /\ RecordsOf(all_matches_sorted, i, j) # {}
    /\ \E i \in 1..Len(en_idioms), j \in 1..Len(target_idioms) :
          /\ RLt(PairScore(i, j), config.min_threshold)
          /\ RecordsOf(all_matches_sorted, i, j) = {}

\* Record a was built before record b by the nested loops.
BuiltBefore(a, b) ==
    \/ a.en_idx < b.en_idx
    \/ a.en_idx = b.en_idx /\ a.tgt_idx < b.tgt_idx

\* C3: the Mode A list is ordered by non-increasing score, and records with
\* equal scores appear in input order (source index, then target index).
C3_SortedStable ==
    ModeADone =>
        \A k, l \in 1..Len(all_matches_sorted) :
            k < l =>
                LET a == all_matches_sorted[k]
                    b == all_matches_sorted[l]
                IN  /\ a[ScoreKey(script)].n * b[ScoreKey(script)].d
                          >= b[ScoreKey(script)].n * a[ScoreKey(script)].d
                    /\ a[ScoreKey(script)] = b[ScoreKey(script)] => BuiltBefore(a, b)

\* C3 witness: a sorted list with two records of equal score, and with a
\* record that the sort moved in front of one built before it.
C3_Witness ==
    /\ ModeADone
    /\ \E k, l \in 1..Len(all_matches_sorted) :
          /\ k < l
          /\ all_matches_sorted[k][ScoreKey(script)] = all_matches_sorted[l][ScoreKey(script)]
    /\ \E k, l \in 1..Len(all_matches_sorted) :
          /\ k < l
          /\ BuiltBefore(all_matches_sorted[l], all_matches_sorted[k])

\* C4: with a non-empty source collection the Mode B list has exactly one
\* record per target idiom, whatever min_threshold and the scores are, and
\* min_threshold does not change it.
C4_OnePerTarget ==
    (ModeBDone /\ Len(en_idioms) > 0) =>
        /\ Len(target_best_matches_sorted) = Len(target_idioms)
        /\ \A j \in 1..Len(target_idioms) :
              \E k \in 1..Len(target_best_matches_sorted) :
                  /\ target_best_matches_sorted[k].tgt_idx = j
                  /\ target_best_matches_sorted[k].tgt_idiom = target_idioms[j].idiom
                  /\ \A l \in 1..Len(target_best_matches_sorted) :
                        target_best_matches_sorted[l].tgt_idx = j => l = k
        /\ \A c \in Configs :
              target_best_matches_sorted =
                  ModeB(script, en_idioms, target_idioms, sims,
                        [config EXCEPT !.min_threshold = c.min_threshold]).value

\* C4 witness: Mode B of the improved analysis kept a record for each of two
\* targets, one of them scoring below min_threshold.
C4_Witness ==
    /\ Improved
    /\ ModeBDone
    /\ Len(en_idioms) > 0
    /\ Len(target_idioms) >= 2
    /\ Len(target_best_matches_sorted) = Len(target_idioms)
    /\ \E k \in 1..Len(target_best_matches_sorted) :
          RLt(target_best_matches_sorted[k].weighted_similarity, config.min_threshold)

\* The first source index whose score for target j is the maximum over all
\* source idioms.
FirstBest(j) ==
    LET score(i) == IF Improved THEN PairScore(i, j) ELSE sims.similarities[i][j]
    IN  CHOOSE i \in 1..Len(en_idioms) :
            /\ \A h \in 1..Len(en_idioms) : RLe(score(h), score(i))
            /\ \A h \in 1..(i - 1) : RLt(score(h), score(i))

\* C5: the Mode B record of a target names the source idiom of maximal score,
\* the one of lowest index when several tie on the maximum.
C5_BestIsFirstMaximum ==
    (ModeBDone /\ Len(en_idioms) > 0) =>
        \A k \in 1..Len(target_best_matches_sorted) :
            LET r == target_best_matches_sorted[k]
            IN  /\ r.en_idx = FirstBest(r.tgt_idx)
                /\ r.best_english_match = en_idioms[FirstBest(r.tgt_idx)].idiom

EitherEmpty == Len(en_idioms) = 0 \/ Len(target_idioms) = 0

\* C6: on an empty collection Mode B reports an explicit empty-collection
\* error: it neither returns a list nor fails with another exception, and
\* emits no best-match record.
C6_EmptySignalled ==
    EitherEmpty =>
        /\ ~ModeBDone
        /\ error.at = "mode_b" => error.type = "EmptyCollectionError"
        /\ target_best_matches_sorted = <<>>

\* C7: on an empty collection Mode A, the persistence of its result
\* included, completes with an empty match set and raises no error.
C7_EmptyModeA ==
    EitherEmpty =>
        /\ error.at \notin {"similarities", "mode_a", "save_a"}
        /\ all_matches_sorted = <<>>

\* C8: the statistics of an empty score sequence (the above-threshold list
\* or the best-match list) raise nothing.
C8_EmptySafeStatistics ==
    (all_matches_sorted = <<>> \/ target_best_matches_sorted = <<>>) =>
        error.at # "statistics"

\* A pending language pair whose own analysis has all it needs: idioms on
\* both sides, each with its embedding row.
Analysable(pair) ==
    /\ Len(en_data.idioms) > 0
    /\ Aligned(en_data)
    /\ Len(pair.data.idioms) > 0
    /\ Aligned(pair.data)

\* C9: a failure raised while analysing one language pair does not keep the
\* remaining pairs from being analysed: the batch run never ends in a
\* failure with an analysable pair still waiting.
C9_SiblingsRun ==
    pc = "failed" => \A k \in 1..Len(todo) : ~Analysable(todo[k])

\* Some file written so far holds a match record.
RecordsWritten ==
    \E n \in DOMAIN files :
        IF n[3] = "matches.csv" THEN files[n].rows # <<>> ELSE files[n] # <<>>

\* C10: when the idioms of one side and its embedding rows differ in number,
\* the comparison is aborted and no match record is produced.
C10_MisalignedAborts ==
    (~Aligned(en_data) \/ ~Aligned(target.data)) =>
        /\ all_matches_sorted = <<>>
        /\ target_best_matches_sorted = <<>>
        /\ ~RecordsWritten
        /\ pc \notin {"return", "done"}

\* C14: the penalty guard is exclusive in the overlap: with the penalty
\* enabled, a call whose overlap is exactly 0.3 returns its base score
\* unpenalised whatever that base is, and a call with overlap 0.31 and base
\* 0.61 returns the base multiplied by exactly 0.845.
C14_ExclusiveBoundaries ==
    (pc = "scorer_returned" /\ call.lexical_penalty) =>
        /\ CallOverlap = Rat(3, 10) => ret[1] = CallBase
        /\ (CallOverlap = Rat(31, 100) /\ CallBase = Rat(61, 100)) =>
              ret[1] = RMul(Rat(61, 100), Rat(845, 1000))

\* C14 witness: a call with overlap 0.31 and base 0.61 has returned 0.51545.
C14_Witness ==
    /\ pc = "scorer_returned"
    /\ call.lexical_penalty
    /\ CallOverlap = Rat(31, 100)
    /\ CallBase = Rat(61, 100)
    /\ ret[1] = Rat(51545, 100000)

\* A call with overlap exactly 0.3 and a base above 0.6 has returned its base.
C14_AtBoundary ==
    /\ pc = "scorer_returned"
    /\ call.lexical_penalty
    /\ CallOverlap = Rat(3, 10)
    /\ RGt(CallBase, Rat(6, 10))
    /\ ret[1] = CallBase

\* C15: when the two idioms share no token the scorer returns exactly
\* idiom_weight*idiom_sim + context_weight*context_sim; with the default
\* weights 0.6 and 0.4, similarities 0.9 and 0.8 give 0.86 (arithmetic is
\* exact here).
C15_DisjointIsBase ==
    (pc = "scorer_returned" /\ get_tokens(call.idiom1) \cap get_tokens(call.idiom2) = {}) =>
        /\ ret[1] = CallBase
        /\ ( /\ call.idiom_only_sim = Rat(9, 10)
             /\ call.context_sim = Rat(8, 10)
             /\ call.idiom_weight = Rat(6, 10)
             /\ call.context_weight = Rat(4, 10) ) => ret[1] = Rat(86, 100)

\* C15 witness: a penalty-enabled call on two non-empty idioms without a
\* common token, similarities 0.9 and 0.8, default weights, has returned 0.86.
C15_Witness ==
    /\ pc = "scorer_returned"
    /\ call.lexical_penalty
    /\ get_tokens(call.idiom1) # {}
    /\ get_tokens(call.idiom2) # {}
    /\ get_tokens(call.idiom1) \cap get_tokens(call.idiom2) = {}
    /\ call.idiom_only_sim = Rat(9, 10)
    /\ call.context_sim = Rat(8, 10)
    /\ call.idiom_weight = Rat(6, 10)
    /\ call.context_weight = Rat(4, 10)
    /\ ret[1] = Rat(86, 100)

\* C20: of two calls that differ only in idiom_only_sim, made with a positive
\* idiom_weight, the one with the larger idiom_only_sim never has the
\* smaller pre-penalty base score. With the penalty disabled the value
\* returned is that base score: ret[2] is the first call's, ret[1] the
\* second's, made with the larger idiom_only_sim.
C20_BaseMonotone ==
    ( /\ pc = "scorer_returned"
      /\ Len(ret) = 2
      /\ ~call.lexical_penalty
      /\ RGt(call.idiom_weight, Zero) ) => RGe(ret[1], ret[2])

\* C20 witness: two such calls have returned, the second a larger base.
C20_Witness ==
    /\ pc = "scorer_returned"
    /\ Len(ret) = 2
    /\ ~call.lexical_penalty
    /\ RGt(call.idiom_weight, Zero)
    /\ RGt(ret[1], ret[2])

\* With a negative idiom_weight the second call returns a smaller base.
C20_NegativeWeightDecreases ==
    /\ pc = "scorer_returned"
    /\ Len(ret) = 2
    /\ ~call.lexical_penalty
    /\ RLt(call.idiom_weight, Zero)
    /\ RLt(ret[1], ret[2])

\* The token sets of the two texts of an overlap call, written out from the
\* texts.
Tokens1 == get_tokens(call.idiom1)
Tokens2 == get_tokens(call.idiom2)

\* C16: calculate_lexical_overlap returns 0.0 when either text has no token
\* and otherwise |intersection| / |union| of the two sets of unique
\* lowercased word tokens; case, punctuation and repeated words do not
\* change the result: "a a b" against "A b!" is 1, "a b" against "a c" 1/3.
C16_OverlapContract ==
    pc = "overlap_returned" =>
        /\ (Tokens1 = {} \/ Tokens2 = {}) => ret[1] = Zero
        /\ (Tokens1 # {} /\ Tokens2 # {}) =>
              ret[1] = Rat(Cardinality(Tokens1 \cap Tokens2),
                           Cardinality(Tokens1 \cup Tokens2))
        /\ (call.idiom1 = Txt_a_a_b /\ call.idiom2 = Txt_A_b_bang) => ret[1] = One
        /\ (call.idiom1 = Txt_a_b /\ call.idiom2 = Txt_a_c) => ret[1] = Rat(1, 3)
        /\ (call.idiom1 = Txt_bang /\ call.idiom2 = Txt_a_b) => ret[1] = Zero

\* C16 witness: the overlap of "a a b" and "A b!" has been returned as 1.
C16_Witness ==
    /\ pc = "overlap_returned"
    /\ call.idiom1 = Txt_a_a_b
    /\ call.idiom2 = Txt_A_b_bang
    /\ ret[1] = One

\* C17 as stated: the overlap of any non-empty string with itself is 1.0.
C17_SelfOverlapNonEmpty ==
    (pc = "overlap_returned" /\ call.idiom1 = call.idiom2 /\ call.idiom1 # <<>>) =>
        ret[1] = One

\* C17, amended: the overlap of a text with itself is 1.0 when the text
\* holds at least one word token (and 0.0 when it holds none).
C17_SelfOverlap ==
    (pc = "overlap_returned" /\ call.idiom1 = call.idiom2) =>
        /\ Tokens1 # {} => ret[1] = One
        /\ Tokens1 = {} => ret[1] = Zero

\* C17 witness: a text of several words has been compared with itself.
C17_Witness ==
    /\ pc = "overlap_returned"
    /\ call.idiom1 = call.idiom2
    /\ Cardinality(Tokens1) > 1
    /\ ret[1] = One

\* C18: calculate_lexical_overlap is symmetric: the call with the two texts
\* exchanged returns the same value as the first call.
C18_Symmetric ==
    (pc = "overlap_returned" /\ Len(ret) = 2) => ret[1] = ret[2]

\* C18 witness: both orders of two texts with token sets of different sizes
\* and a common token have been compared.
C18_Witness ==
    /\ pc = "overlap_returned"
    /\ Len(ret) = 2
    /\ Cardinality(Tokens1) # Cardinality(Tokens2)
    /\ Tokens1 \cap Tokens2 # {}
    /\ ret[1] = ret[2]

\* C19: every value calculate_lexical_overlap returns lies in [0, 1].
C19_UnitInterval ==
    pc = "overlap_returned" =>
        \A k \in 1..Len(ret) : 0 <= ret[k].n /\ ret[k].n <= ret[k].d

\* C19 witness: a value strictly between 0 and 1 has been returned.
C19_Witness ==
    /\ pc = "overlap_returned"
    /\ 0 < ret[1].n
    /\ ret[1].n < ret[1].d

\* The two Mode A files of the language pair with the given code.
JsonFile(code) == FileName(script, code, "matches.json")
CsvFile(code) == FileName(script, code, "matches.csv")

ModeASaved == pc \in {"mode_b", "save_b", "statistics", "return"}

\* The analysis in progress has returned to its caller.
Returned ==
    /\ pc \in {"main", "done"}
    /\ results # <<>>
    /\ results[Len(results)].code = target.code

\* What C12 says of an export limit N.
ExportFollows(N) ==
    /\ (ModeASaved \/ Returned) =>
          LET n    == IF Len(all_matches_sorted) < N THEN Len(all_matches_sorted) ELSE N
              json == files[JsonFile(target.code)]
              csv  == files[CsvFile(target.code)]
          IN  /\ Len(json) = n
              /\ \A k \in 1..n : json[k] = Exported(all_matches_sorted[k])
              /\ csv.rows = json
    /\ (Improved /\ (pc = "return" \/ Returned) /\ all_matches_sorted # <<>>) =>
          /\ stats.above[1].count = Len(all_matches_sorted)
          /\ stats.above[1].weighted.mean =
                 RDiv(Sum(Scores(all_matches_sorted, "weighted_similarity")),
                      Rat(Len(all_matches_sorted), 1))
    /\ Returned => results[Len(results)].count = Len(all_matches_sorted)

Consistent(r, i, j) ==
    /\ r.english_idiom = en_idioms[i].idiom
    /\ r.english_context = (IF en_idioms[i].contexts = <<>> THEN ""
                            ELSE en_idioms[i].contexts[1])
    /\ r.tgt_idiom = target_idioms[j].idiom
    /\ r.tgt_context = (IF target_idioms[j].contexts = <<>> THEN ""
                        ELSE target_idioms[j].contexts[1])
    /\ r.english_translation = (IF target_idioms[j].english_translations = <<>> THEN ""
                                ELSE target_idioms[j].english_translations[1])
    /\ r.idiom_only_similarity = sims.idiom_only_sims[i][j]
    /\ r.context_similarity = sims.context_sims[i][j]
    /\ r.lexical_overlap = calculate_lexical_overlap(en_idioms[i].idiom, target_idioms[j].idiom)
    /\ r.weighted_similarity = compute_weighted_similarity(r.idiom_only_similarity, r.context_similarity, r.english_idiom, r.tgt_idiom, config.idiom_weight, config.context_weight, TRUE)

\* C13: every Mode A record of the improved analysis, in the sorted filtered
\* list and in the truncated list written to the files, is consistent with
\* the one index pair (i, j) it was built at: surface forms, contexts and
\* translation of source idiom i and target idiom j, the matrix entries
\* (i, j), the overlap of the two surface forms and the scorer's value for
\* exactly these.
C13_RecordConsistent ==
    Improved =>
        /\ ModeADone =>
              \A k \in 1..Len(all_matches_sorted) :
                  Consistent(all_matches_sorted[k], all_matches_sorted[k].en_idx,
                             all_matches_sorted[k].tgt_idx)
        /\ ModeASaved =>
              \A k \in 1..Len(files[JsonFile(target.code)]) :
                  /\ Consistent(files[JsonFile(target.code)][k],
                                all_matches_sorted[k].en_idx, all_matches_sorted[k].tgt_idx)
                  /\ Consistent(files[CsvFile(target.code)].rows[k],
                                all_matches_sorted[k].en_idx, all_matches_sorted[k].tgt_idx)

\* C13 witness: the files of an improved analysis are written, the list was
\* filtered (a pair is missing), reordered by the sort (a record stands in
\* front of one built before it) and truncated.
C13_Witness ==
    /\ Improved
    /\ ModeASaved
    /\ Len(all_matches_sorted) < Len(en_idioms) * Len(target_idioms)
    /\ Len(files[JsonFile(target.code)]) < Len(all_matches_sorted)
    /\ \E k, l \in 1..Len(all_matches_sorted) :
          /\ k < l
          /\ BuiltBefore(all_matches_sorted[l], all_matches_sorted[k])

\* C21: an idiom record whose contexts or translations are missing or empty
\* never makes the analysis fail: no analysis ends in the KeyError of a
\* subscript on an absent key, the representative being element 0 of a
\* non-empty list and the empty string otherwise.
C21_SparseNeverFails == error.type # "KeyError"

\* The matrices one analysis computes from the two collections it is given.
OwnSims(en, tg) ==
    IF script = "improved"
    THEN [NoSims EXCEPT !.idiom_only_sims = cosine_similarity(en.idiom_only_embeddings, tg.idiom_only_embeddings).value,
                        !.context_sims = cosine_similarity(en.idiom_context_embeddings, tg.idiom_context_embeddings).value]
    ELSE [NoSims EXCEPT !.similarities = cosine_similarity(Embeddings(en), Embeddings(tg)).value]

\* What the analysis of the pair (en, tg) yields from its own inputs alone.
OwnModeA(en, tg) == ModeA(script, en.idioms, tg.idioms, OwnSims(en, tg), config).value
OwnModeB(en, tg) == ModeB(script, en.idioms, tg.idioms, OwnSims(en, tg), config).value

\* The files of language code hold what the analysis of (en, tg) writes.
OwnFiles(code, en, tg) ==
    /\ files[FileName(script, code, "matches.json")] = TopExported(OwnModeA(en, tg))
    /\ files[FileName(script, code, "matches.csv")] = CsvWrite(script, OwnModeA(en, tg)).content
    /\ files[FileName(script, code, "best_matches.json")] = AllExported(OwnModeB(en, tg))

SortedByScore(list) ==
    \A k, l \in 1..Len(list) :
        k < l =>
            /\ RGe(list[k][ScoreKey(script)], list[l][ScoreKey(script)])
            /\ list[k][ScoreKey(script)] = list[l][ScoreKey(script)]
                   => list[k].tgt_idx < list[l].tgt_idx

\* C23: the Mode B list handed to the export and returned to the caller is
\* ordered by non-increasing score, and records with exactly equal scores
\* keep target input order.
C23_BestSortedStable ==
    /\ ModeBDone => SortedByScore(target_best_matches_sorted)
    /\ \A k \in 1..Len(results) : SortedByScore(results[k].matches)

\* C23 witness: a returned Mode B list holding two records of equal score
\* and a record the sort moved in front of an earlier target's record.
C23_Witness ==
    /\ Returned
    /\ \E r \in 1..Len(results) :
          LET list == results[r].matches
          IN  /\ \E k, l \in 1..Len(list) :
                    k < l /\ list[k][ScoreKey(script)] = list[l][ScoreKey(script)]
              /\ \E k, l \in 1..Len(list) :
                    k < l /\ list[l].tgt_idx < list[k].tgt_idx

\* The similarity arguments of the call are cosine similarities.
CallCosines ==
    /\ RGe(call.idiom_only_sim, Rat(-1, 1)) /\ RLe(call.idiom_only_sim, One)
    /\ RGe(call.context_sim, Rat(-1, 1)) /\ RLe(call.context_sim, One)

\* The call uses the default weights 0.6 / 0.4.
CallDefaultWeights ==
    /\ call.idiom_weight = DefaultIdiomWeight
    /\ call.context_weight = DefaultContextWeight

\* C24: for similarity arguments in [-1, 1], any two idiom texts and the
\* default weights, compute_weighted_similarity returns a score in [0, 1].
C24_ScoreInUnitRange ==
    (pc = "scorer_returned" /\ CallCosines /\ CallDefaultWeights) =>
        RGe(ret[1], Zero) /\ RLe(ret[1], One)

\* C27: in every Mode B record of the improved analysis the recorded
\* idiom_only_similarity and context_similarity are the matrix entries of
\* the recorded best_english_match against that target, and the recorded
\* weighted_similarity is the scorer applied to those two values and the two
\* surface forms.
C27_BestRecordConsistent ==
    (Improved /\ ModeBDone) =>
        \A k \in 1..Len(target_best_matches_sorted) :
            LET r == target_best_matches_sorted[k]
            IN  /\ r.best_english_match = en_idioms[r.en_idx].idiom
                /\ r.idiom_only_similarity = sims.idiom_only_sims[r.en_idx][r.tgt_idx]
                /\ r.context_similarity = sims.context_sims[r.en_idx][r.tgt_idx]
                /\ r.weighted_similarity =
                       compute_weighted_similarity(r.idiom_only_similarity, r.context_similarity, r.best_english_match, r.tgt_idiom, config.idiom_weight, config.context_weight, TRUE)

SameWords(i, j) ==
    /\ get_tokens(en_idioms[i].idiom) = get_tokens(target_idioms[j].idiom)
    /\ sims.idiom_only_sims[i][j] = One
    /\ sims.context_sims[i][j] = One

\* C29: under the default configuration every record retained by Mode A has
\* lexical_overlap <= 0.7; a pair whose idioms have identical token sets
\* (overlap 1.0) is never retained.
C29_RetainedOverlapBounded ==
    (Improved /\ ModeADone /\ config = DefaultConfig) =>
        /\ \A k \in 1..Len(all_matches_sorted) :
              RLe(all_matches_sorted[k].lexical_overlap, Rat(7, 10))
        /\ \A i \in 1..Len(en_idioms), j \in 1..Len(target_idioms) :
              calculate_lexical_overlap(en_idioms[i].idiom, target_idioms[j].idiom) = One
                  => RecordsOf(all_matches_sorted, i, j) = {}

\* C29 witness: a pair with identical token sets and both similarities 1
\* was dropped, while a penalised pair (overlap above 0.3) was retained.
C29_Witness ==
    /\ Improved
    /\ ModeADone
    /\ config = DefaultConfig
    /\ \E i \in 1..Len(en_idioms), j \in 1..Len(target_idioms) :
          /\ InMatrix(sims.idiom_only_sims, i, j)
          /\ SameWords(i, j)
          /\ RecordsOf(all_matches_sorted, i, j) = {}
    /\ \E k \in 1..Len(all_matches_sorted) :
          RGt(all_matches_sorted[k].lexical_overlap, Rat(3, 10))

\* The thresholds the Mode A list of the analysis is compared across.
Thresholds == {c.min_threshold : c \in Configs} \cup {Rat(1, 2), Rat(4, 5)}

\* The Mode A list of the same inputs at threshold t.
ModeAAt(t) ==
    ModeA(script, en_idioms, target_idioms, sims, [config EXCEPT !.min_threshold = t]).value

\* The records of list scoring at least t, in the order of list.
AtLeast(list, t) == SelectSeq(list, LAMBDA m : RGe(m.weighted_similarity, t))

\* C30: lowering min_threshold never removes a Mode A record: for t2 <= t1
\* the list at t1 is the list at t2 without the records scoring below t1
\* (same records, same relative order), so every record present only at t2
\* has a score in [t2, t1).
C30_ThresholdMonotone ==
    (Improved /\ ModeADone) =>
        \A t \in Thresholds :
            /\ RLe(t, config.min_threshold) =>
                  /\ all_matches_sorted = AtLeast(ModeAAt(t), config.min_threshold)
                  /\ ModeAAt(t) = AtLeast(ModeAAt(t), t)
            /\ RGe(t, config.min_threshold) =>
                  ModeAAt(t) = AtLeast(all_matches_sorted, t)

-----------------------------------------------------------------------------
(* Top-k selection: np.argsort and the slices taken of it *)

\* The indices of a that share their value with another index.
Tied(a) == {i \in 1..Len(a) : \E j \in 1..Len(a) : j # i /\ a[j] = a[i]}

\* np.argsort's default sort is not stable: equal values may come out in
\* any order. A tie break gives every tied index a preference.
TieBreaks(a) == [Tied(a) -> 1..Cardinality(Tied(a))]

\* Index i stands before index j in the ascending order under tie break tb.
Precedes(a, tb, i, j) ==
    \/ RLt(a[i], a[j])
    \/ /\ i # j
       /\ a[i] = a[j]
       /\ (tb[i] < tb[j] \/ (tb[i] = tb[j] /\ i < j))

\* np.argsort(a): the indices of a by ascending value.
argsort(a, tb) ==
    [r \in 1..Len(a) |->
        CHOOSE i \in 1..Len(a) :
            Cardinality({j \in 1..Len(a) : Precedes(a, tb, j, i)}) = r - 1]

\* s[::-1]
Reversed(s) == [k \in 1..Len(s) |-> s[Len(s) + 1 - k]]

\* s[-n:] for a positive n
LastN(s, n) == SubSeq(s, IF Len(s) > n THEN Len(s) - n + 1 ELSE 1, Len(s))

-----------------------------------------------------------------------------
(* match_english_french_idioms.py: the top 5 French idioms per English idiom *)

\* "[-5:]"
TopK == 5

\* The largest French collection of a run.
MaxFrench == 7

\* An English idiom as load_english_idioms keeps it: with contexts.
English_e == Entry(Txt_e, <<"en4">>, <<>>, <<3, 4>>, <<4, 3>>)

TopKEnglishPool == {English_a_b, English_e}

\* The embeddings of the French idioms; the seventh repeats the second, so
\* that a row holds two equal similarities.
FrenchVectors ==
    <<<<1, 0>>, <<4, 3>>, <<3, 4>>, <<12, 5>>, <<5, 12>>, <<0, 1>>, <<4, 3>>, <<-1, 0>>, <<12, 5>>>>

\* The k-th French idiom, as load_french_idioms builds it.
FrenchEntry(k) ==
    Entry(Word(k), <<"fc1", "fc2">>, <<"ft1">>, FrenchVectors[k], FrenchVectors[k])

\* The French collections: the first n idioms, in file order or reversed.
FrenchLists ==
    UNION {{[k \in 1..n |-> FrenchEntry(k)], [k \in 1..n |-> FrenchEntry(n + 1 - k)]} : n \in 0..MaxFrench}

\* The top_indices of one English idiom: "np.argsort(sim_scores)[-5:][::-1]".
top_indices(sim_scores, tb) == Reversed(LastN(argsort(sim_scores, tb), TopK))

\* The match record of English idiom i and the French idiom at rank.
TopKMatch(english_idioms, french_idioms, sim_scores, i, fr_idx, rank) ==
    [english_idiom       |-> english_idioms[i].idiom,
     english_context     |-> Representative(english_idioms[i].contexts),
     french_idiom        |-> french_idioms[fr_idx].idiom,
     french_context      |-> Representative(french_idioms[fr_idx].contexts),
     english_translation |-> Representative(french_idioms[fr_idx].english_translations),
     similarity          |-> sim_scores[fr_idx],
     rank                |-> rank,
     en_idx              |-> i,
     tgt_idx             |-> fr_idx]

\* Mutant of TopKMatches: the ranks follow the ascending order.
TopKMatches_Ascending(english_idioms, french_idioms, sim_scores, i, tb) ==
    LET top == LastN(argsort(sim_scores, tb), TopK)
    IN  [rank \in 1..Len(top) |->
            TopKMatch(english_idioms, french_idioms, sim_scores, i, top[rank], rank)]

\* The records one iteration of the loop appends for English idiom i.
TopKMatches(english_idioms, french_idioms, sim_scores, i, tb) ==
    LET top == top_indices(sim_scores, tb)
    IN  [rank \in 1..Len(top) |->
            TopKMatch(english_idioms, french_idioms, sim_scores, i, top[rank], rank)]

\* "top_matches = [m for m in matches if m['rank'] == 1]"
top_matches(list) == SelectSeq(list, LAMBDA m : m.rank = 1)

\* The keys of a record, in insertion order.
TopKHeader ==
    <<"english_idiom", "english_context", "french_idiom", "french_context",
      "english_translation", "similarity", "rank">>

InitTopK ==
    /\ script = "match_english_french"
    /\ config = DefaultConfig
    /\ en_data \in {Pickle(c) : c \in SeqsUpTo(TopKEnglishPool, MaxIdioms)}
    /\ \E c \in FrenchLists : target = [code |-> "fr", data |-> Pickle(c)]
    /\ todo = <<>>
    /\ pc = "topk_encode"
    /\ sims = NoSims
    /\ all_matches_sorted = <<>>
    /\ target_best_matches_sorted = <<>>
    /\ stats = NoStatistics
    /\ files = NoFiles
    /\ results = <<>>
    /\ error = NoError
    /\ call = NoCall
    /\ ret = <<>>
    /\ top_k_matches = <<>>

\* The representations are built and encoded, a sample of each printed, and
\* the similarity matrix computed; todo lists the English idioms the loop
\* has still to visit.
TopKEncode ==
    /\ pc = "topk_encode"
    /\ IF en_data.idioms = <<>> \/ target.data.idioms = <<>>
       THEN /\ error' = Raised("IndexError", "topk_encode")
            /\ pc' = "raised"
            /\ UNCHANGED <<sims, todo>>
       ELSE /\ sims' = [NoSims EXCEPT !.similarities =
                           cosine_similarity(Embeddings(en_data), Embeddings(target.data)).value]
            /\ todo' = [i \in 1..Len(en_data.idioms) |-> i]
            /\ pc' = "topk_loop"
            /\ error' = error
    /\ UNCHANGED <<inputs, target, all_matches_sorted, target_best_matches_sorted,
                   stats, files, results, pure>>

\* One iteration of the loop over the English idioms.
TopKIdiom ==
    /\ pc = "topk_loop"
    /\ todo # <<>>
    /\ \E tb \in TieBreaks(sims.similarities[Head(todo)]) :
           top_k_matches' = top_k_matches \o
               TopKMatches(en_data.idioms, target.data.idioms,
                           sims.similarities[Head(todo)], Head(todo), tb)
    /\ todo' = Tail(todo)
    /\ UNCHANGED <<inputs, target, pc, sims, all_matches_sorted,
                   target_best_matches_sorted, stats, files, results, error, call, ret>>

\* The top match of every English idiom is written as json and as csv, and
\* main() returns their number.
TopKSave ==
    /\ pc = "topk_loop"
    /\ todo = <<>>
    /\ LET top == top_matches(top_k_matches)
           fs1 == Written(files, FileName(script, target.code, "matches.json"),
                          [k \in 1..Len(top) |-> Exported(top[k])])
       IN  /\ files' = Written(fs1, FileName(script, target.code, "matches.csv"),
                               [header |-> TopKHeader,
                                rows   |-> [k \in 1..Len(top) |-> Exported(top[k])]])
           /\ ret' = <<Len(top)>>
    /\ pc' = "done"
    /\ UNCHANGED <<inputs, todo, target, sims, all_matches_sorted,
                   target_best_matches_sorted, stats, results, error, call, top_k_matches>>

NextTopK == TopKEncode \/ TopKIdiom \/ TopKSave \/ HandleException

SpecTopK == InitTopK /\ [][NextTopK]_vars

\* The records the matcher holds for English idiom i, in list order.
RecordsFor(i) == SelectSeq(top_k_matches, LAMBDA m : m.en_idx = i)

\* The records of English idiom i are its k best French idioms by rank.
RankedTopK(i, k) ==
    LET recs == RecordsFor(i)
        row  == sims.similarities[i]
        used == {recs[r].tgt_idx : r \in 1..Len(recs)}
    IN  /\ Len(recs) = k
        /\ Cardinality(used) = k
        /\ \A r \in 1..Len(recs) :
              /\ recs[r].rank = r
              /\ recs[r].english_idiom = en_idioms[i].idiom
              /\ recs[r].french_idiom = target_idioms[recs[r].tgt_idx].idiom
              /\ recs[r].similarity = row[recs[r].tgt_idx]
              /\ r > 1 => RGe(recs[r - 1].similarity, recs[r].similarity)
              /\ \A j \in (1..Len(row)) \ used : RLe(row[j], recs[r].similarity)
        /\ \A j \in 1..Len(row) : RLe(row[j], recs[1].similarity)

\* C26: in the top-k-per-source matcher every English idiom receives exactly
\* min(5, number of French idioms) records with ranks 1..k, whose
\* similarities are non-increasing in rank and are the k largest entries of
\* the idiom's similarity row (rank 1 holds the row maximum); the persisted
\* top matches are exactly the rank-1 records, one per English idiom, in
\* English input order.
C26_TopKPerSource ==
    (script = "match_english_french" /\ pc = "done") =>
        LET M == Len(en_idioms)
            N == Len(target_idioms)
            k == IF N < 5 THEN N ELSE 5
            saved == files[FileName(script, "fr", "matches.json")]
        IN  /\ Len(top_k_matches) = M * k
            /\ \A i \in 1..M : RankedTopK(i, k)
            /\ Len(saved) = M
            /\ \A i \in 1..M : saved[i] = Exported(RecordsFor(i)[1])
            /\ files[FileName(script, "fr", "matches.csv")].rows = saved

\* C26 witness: two English idioms were matched against more than five
\* French idioms, a row holding two equal similarities among its largest,
\* and the two English idioms have different best matches.
C26_Witness ==
    /\ script = "match_english_french"
    /\ pc = "done"
    /\ Len(en_idioms) = 2
    /\ Len(target_idioms) > 5
    /\ \E r \in 2..5 : RecordsFor(1)[r].similarity = RecordsFor(1)[r - 1].similarity
    /\ RecordsFor(2)[1].french_idiom # RecordsFor(1)[1].french_idiom

-----------------------------------------------------------------------------
(* similarity/semantic_matcher.py: SemanticMatcher.find_similar_mwes *)

\* The largest top_k of a call.
MaxTopK == 2

\* An input text with the embedding the sentence transformer gives it; for
\* an English idiom dict the embedding is that of the idiom with its
\* contexts, so two dicts of one text may have different embeddings.
Encoded(text, embedding) == [text |-> text, embedding |-> embedding]

MatcherEnglishPool ==
    {Encoded(Txt_a_b, <<1, 0>>), Encoded(Txt_a_b, <<0, 1>>), Encoded(Txt_c, <<3, 4>>)}

MatcherForeignPool ==
    {Encoded(Txt_a_c, <<1, 0>>), Encoded(Txt_e, <<4, 3>>), Encoded(Txt_f_g, <<3, 4>>)}

\* The default threshold 0.6 and a higher one.
MatcherThresholds == {Rat(3, 5), Rat(4, 5)}

\* "[item.get('text', item.get('idiom', '')) for item in english_idioms]"
idiom_texts(english_idioms) == [i \in 1..Len(english_idioms) |-> english_idioms[i].text]

\* encode_texts / encode_idioms_with_context: one embedding per input.
encode(items) == [i \in 1..Len(items) |-> items[i].embedding]

\* "np.argsort(similarities)[::-1][:top_k]"
matcher_top_indices(similarities, tb, top_k) == Take(Reversed(argsort(similarities, tb)), top_k)

\* Mutant of matched_mwes: the threshold is not applied.
matched_mwes_Unfiltered(foreign_mwes, similarities, top, threshold) ==
    [k \in 1..Len(top) |-> <<foreign_mwes[top[k]].text, similarities[top[k]], top[k]>>]

\* The match list of one idiom: the top candidates reaching the threshold,
\* each a tuple (foreign_mwe, score); the third component is the
\* candidate's index, kept for the bookkeeping of the properties.
matched_mwes(foreign_mwes, similarities, top, threshold) ==
    LET kept == SelectSeq(top, LAMBDA idx : RGe(similarities[idx], threshold))
    IN  [k \in 1..Len(kept) |-> <<foreign_mwes[kept[k]].text, similarities[kept[k]], kept[k]>>]

InitMatcher ==
    /\ script = "semantic_matcher"
    /\ config = DefaultConfig
    /\ en_data = Pickle(<<>>)
    /\ target = NoTarget
    /\ todo = <<>>
    /\ pc = "matcher_encode"
    /\ sims = NoSims
    /\ all_matches_sorted = <<>>
    /\ target_best_matches_sorted = <<>>
    /\ stats = NoStatistics
    /\ files = NoFiles
    /\ results = <<>>
    /\ error = NoError
    /\ ret = <<>>
    /\ top_k_matches = <<>>
    /\ \E e \in SeqsUpTo(MatcherEnglishPool, MaxIdioms), f \in SeqsUpTo(MatcherForeignPool, MaxIdioms),
          t \in MatcherThresholds, k \in 1..MaxTopK :
           call = [english_idioms |-> e, foreign_mwes |-> f, threshold |-> t, top_k |-> k]

\* The inputs are encoded and the similarity matrix computed:
\* english_idioms[0] raises IndexError on an empty list, and
\* cosine_similarity raises ValueError without foreign embeddings.
MatcherEncode ==
    /\ pc = "matcher_encode"
    /\ LET got == cosine_similarity(encode(call.english_idioms), encode(call.foreign_mwes))
           raised == IF call.english_idioms = <<>> THEN "IndexError" ELSE got.raised
       IN  IF raised # "none"
           THEN /\ error' = Raised(raised, "matcher_encode")
                /\ pc' = "raised"
                /\ UNCHANGED <<sims, todo>>
           ELSE /\ sims' = [NoSims EXCEPT !.similarities = got.value]
                /\ todo' = [i \in 1..Len(call.english_idioms) |-> i]
                /\ pc' = "matcher_loop"
                /\ error' = error
    /\ UNCHANGED <<inputs, target, all_matches_sorted, target_best_matches_sorted,
                   stats, files, results, pure>>

\* One iteration of the loop over the idioms: the idiom's text is mapped to
\* its match list when that is not empty.
MatcherIdiom ==
    /\ pc = "matcher_loop"
    /\ todo # <<>>
    /\ LET i            == Head(todo)
           similarities == sims.similarities[i]
       IN  \E tb \in TieBreaks(similarities) :
               LET matched == matched_mwes(call.foreign_mwes, similarities,
                                           matcher_top_indices(similarities, tb, call.top_k),
                                           call.threshold)
               IN  top_k_matches' =
                       IF matched # <<>>
                       THEN Written(top_k_matches, idiom_texts(call.english_idioms)[i], matched)
                       ELSE top_k_matches
    /\ todo' = Tail(todo)
    /\ UNCHANGED <<inputs, target, pc, sims, all_matches_sorted,
                   target_best_matches_sorted, stats, files, results, error, call, ret>>

\* "return matches"
MatcherReturn ==
    /\ pc = "matcher_loop"
    /\ todo = <<>>
    /\ ret' = <<top_k_matches>>
    /\ pc' = "matcher_returned"
    /\ UNCHANGED <<inputs, todo, target, sims, all_matches_sorted,
                   target_best_matches_sorted, stats, files, results, error, call, top_k_matches>>

NextMatcher == MatcherEncode \/ MatcherIdiom \/ MatcherReturn

SpecMatcher == InitMatcher /\ [][NextMatcher]_vars

\* The candidates of input idiom i that reach the threshold.
Reaching(i) ==
    {j \in 1..Len(call.foreign_mwes) : RGe(sims.similarities[i][j], call.threshold)}

\* list is the match list of input idiom i: the candidates among the
\* idiom's top_k most similar that reach the threshold, best first.
MatchListOf(list, i) ==
    LET row == sims.similarities[i]
    IN  /\ Len(list) = (IF Cardinality(Reaching(i)) < call.top_k
                        THEN Cardinality(Reaching(i)) ELSE call.top_k)
        /\ Cardinality({list[k][3] : k \in 1..Len(list)}) = Len(list)
        /\ \A k \in 1..Len(list) :
              /\ list[k][1] = call.foreign_mwes[list[k][3]].text
              /\ list[k][2] = row[list[k][3]]
              /\ RGe(list[k][2], call.threshold)
              /\ Cardinality({j \in 1..Len(row) : RGt(row[j], list[k][2])}) < call.top_k
              /\ k > 1 => RGe(list[k - 1][2], list[k][2])
        /\ \A j \in 1..Len(row) : list # <<>> => RLe(row[j], list[1][2])

=============================================================================
